---------------------------- MODULE Spec2Model ----------------------------
(***************************************************************************)
(* A model of the Discord /ask bot of src/index.js.                        *)
(*                                                                         *)
(*   - splitMessage (src/index.js:43-72), the chunker, as operators that   *)
(*     compute on strings character by character, and as a state machine   *)
(*     (Spec) that runs the function one loop iteration at a time;         *)
(*   - the interactionCreate handler of /ask (src/index.js:131-180), as a  *)
(*     state machine (AskSpec) with one action per await point, run for    *)
(*     several interactions whose handlers interleave.                     *)
(*                                                                         *)
(* A string is a sequence of one-character strings.                        *)
(***************************************************************************)
EXTENDS Integers, Sequences, FiniteSets, TLC

(***************************************************************************)
(* Bounds of the model.                                                    *)
(***************************************************************************)
\* longest text handed to splitMessage
MaxTextLen == 7
\* largest maxLen handed to splitMessage (the smallest is 1)
MaxMaxLen == 4
\* interactions whose handlers run concurrently
NumInteractions == 2
\* longest answer the AI call returns
MaxAnswerLen == 6
\* the message ceiling the /ask handler splits at and the platform enforces:
\* 2000 in src/index.js:148 and :153, scaled down so that answers longer than
\* it can be enumerated (splitMessage is parametric in it)
MsgLimit == 2

(***************************************************************************)
(* Strings.                                                                *)
(***************************************************************************)
NL == "\n"
\* the paragraph separator '\n\n' of src/index.js:48 and :52
Sep == <<NL, NL>>
\* the characters texts are made of: two letters and the newline
Alphabet == {"a", "b", NL}

StringsUpTo(chars, n) == UNION {[1..k -> chars] : k \in 0..n}

Min(a, b) == IF a <= b THEN a ELSE b

\* s.slice(i, j) of JavaScript for 0 <= i <= j: characters i .. j-1 (counted
\* from 0), cut at the end of s
slice(s, i, j) == SubSeq(s, i + 1, Min(j, Len(s)))

\* text.split('\n\n') scanning from position i (counted from 1), cur being the
\* paragraph read so far: the separators are matched leftmost first and do
\* not overlap, and n separators give n + 1 paragraphs, empty ones included
RECURSIVE splitFrom(_, _, _)
splitFrom(text, i, cur) ==
    IF i > Len(text) THEN <<cur>>
    ELSE IF i < Len(text) /\ text[i] = NL /\ text[i + 1] = NL
         THEN <<cur>> \o splitFrom(text, i + 2, <<>>)
         ELSE splitFrom(text, i + 1, Append(cur, text[i]))

\* text.split('\n\n')
split(text) == splitFrom(text, 1, <<>>)

(***************************************************************************)
(* splitMessage, src/index.js:43-72.                                       *)
(***************************************************************************)
\* `if (!text)`: the empty string is falsy
isFalsy(s) == s = <<>>

\* mutant of fitsWhole: `<` for `<=`
fitsWholeStrict(text, maxLen) == Len(text) < maxLen

\* `text.length <= maxLen`, the early return of the whole text
fitsWhole(text, maxLen) == Len(text) <= maxLen

\* mutant of forceSlice: `while (i + maxLen <= p.length)`, which drops a
\* shorter last piece
RECURSIVE forceSliceWholeOnly(_, _, _)
forceSliceWholeOnly(p, i, maxLen) ==
    IF i + maxLen <= Len(p)
    THEN <<slice(p, i, i + maxLen)>> \o forceSliceWholeOnly(p, i + maxLen, maxLen)
    ELSE <<>>

\* the while loop that force-slices paragraph p from offset i
RECURSIVE forceSlice(_, _, _)
forceSlice(p, i, maxLen) ==
    IF i < Len(p)
    THEN <<slice(p, i, i + maxLen)>> \o forceSlice(p, i + maxLen, maxLen)
    ELSE <<>>

\* `chunk ? ('\n\n' + p) : p`
pieceOf(chunk, p) == IF ~isFalsy(chunk) THEN Sep \o p ELSE p

\* mutant of overflows: `>=` for `>`
overflowsAtLimit(chunk, piece, maxLen) == Len(chunk \o piece) >= maxLen

\* `(chunk + piece).length > maxLen`
overflows(chunk, piece, maxLen) == Len(chunk \o piece) > maxLen

\* mutant of forBody: `chunk = piece` for `chunk = p` after a flush, which
\* carries the separator into the next chunk
forBodyCarrySep(st, p, maxLen) ==
    LET piece == pieceOf(st.chunk, p) IN
    IF overflows(st.chunk, piece, maxLen)
    THEN IF ~isFalsy(st.chunk)
         THEN [parts |-> Append(st.parts, st.chunk), chunk |-> piece]
         ELSE [parts |-> st.parts \o forceSlice(p, 0, maxLen), chunk |-> <<>>]
    ELSE [parts |-> st.parts, chunk |-> st.chunk \o piece]

\* one iteration of `for (const p of paragraphs)` on the loop's state
\* st = [parts, chunk]
forBody(st, p, maxLen) ==
    LET piece == pieceOf(st.chunk, p) IN
    IF overflows(st.chunk, piece, maxLen)
    THEN IF ~isFalsy(st.chunk)
         THEN [parts |-> Append(st.parts, st.chunk), chunk |-> p]
         ELSE [parts |-> st.parts \o forceSlice(p, 0, maxLen), chunk |-> <<>>]
    ELSE [parts |-> st.parts, chunk |-> st.chunk \o piece]

\* mutant of finalFlush: the push without its `if (chunk)`
finalFlushAlways(st) == Append(st.parts, st.chunk)

\* `if (chunk) parts.push(chunk); return parts;`
finalFlush(st) ==
    IF ~isFalsy(st.chunk) THEN Append(st.parts, st.chunk) ELSE st.parts

\* the for loop from paragraph k on
RECURSIVE forLoop(_, _, _, _)
forLoop(paragraphs, k, st, maxLen) ==
    IF k > Len(paragraphs) THEN st
    ELSE forLoop(paragraphs, k + 1, forBody(st, paragraphs[k], maxLen), maxLen)

\* splitMessage(text, maxLen)
splitMessage(text, maxLen) ==
    IF isFalsy(text) THEN <<>>
    ELSE IF fitsWhole(text, maxLen) THEN <<text>>
    ELSE finalFlush(forLoop(split(text), 1,
                            [parts |-> <<>>, chunk |-> <<>>], maxLen))

(***************************************************************************)
(* State.                                                                  *)
(***************************************************************************)
VARIABLES
    \* ---- one call of splitMessage ----
    text,        \* the argument text
    maxLen,      \* the argument maxLen
    pc,          \* "start", "loop" (in the for loop), "done" (returned)
    paragraphs,  \* const paragraphs
    idx,         \* index of the paragraph the for loop takes next
    chunk,       \* let chunk
    parts,       \* const parts; once pc = "done", the value returned
    \* history of the call, read by the properties only
    origin,      \* origin[k] = [para, off]: parts[k] starts at offset off of
                 \* paragraph para
    chunkPara,   \* the paragraph the running chunk starts with
    \* ---- the /ask handler, per interaction ----
    hpc,         \* where the handler of the interaction stands (see below)
    deferred,    \* interaction.deferred
    replied,     \* interaction.replied
    answer,      \* const answer
    chunks,      \* const chunks, what shift() and the for loop have left of it
    calls,       \* the calls made on the interaction, in order, each with the
                 \* line that makes it and how it settled
    aiCalls,     \* how many times askGemini was called
    aiThrew      \* whether askGemini threw

splitVars == <<text, maxLen, pc, paragraphs, idx, chunk, parts, origin, chunkPara>>
askVars == <<hpc, deferred, replied, answer, chunks, calls, aiCalls, aiThrew>>
vars == <<splitVars, askVars>>

Interactions == 1..NumInteractions

\* no interaction has arrived
AskIdle ==
    /\ hpc = [i \in Interactions |-> "new"]
    /\ deferred = [i \in Interactions |-> FALSE]
    /\ replied = [i \in Interactions |-> FALSE]
    /\ answer = [i \in Interactions |-> <<>>]
    /\ chunks = [i \in Interactions |-> <<>>]
    /\ calls = [i \in Interactions |-> <<>>]
    /\ aiCalls = [i \in Interactions |-> 0]
    /\ aiThrew = [i \in Interactions |-> FALSE]

(***************************************************************************)
(* Spec: one call of splitMessage on any text and maxLen within the bounds.*)
(***************************************************************************)
Init ==
    /\ text \in StringsUpTo(Alphabet, MaxTextLen)
    /\ maxLen \in 1..MaxMaxLen
    /\ pc = "start"
    /\ paragraphs = <<>>
    /\ idx = 1
    /\ chunk = <<>>
    /\ parts = <<>>
    /\ origin = <<>>
    /\ chunkPara = 0
    /\ AskIdle

\* src/index.js:44
ReturnEmpty ==
    /\ pc = "start"
    /\ isFalsy(text)
    /\ parts' = <<>>
    /\ pc' = "done"
    /\ UNCHANGED <<text, maxLen, paragraphs, idx, chunk, origin, chunkPara>>
    /\ UNCHANGED askVars

\* src/index.js:45
ReturnWhole ==
    /\ pc = "start"
    /\ ~isFalsy(text)
    /\ fitsWhole(text, maxLen)
    /\ parts' = <<text>>
    /\ origin' = <<[para |-> 1, off |-> 0]>>
    /\ pc' = "done"
    /\ UNCHANGED <<text, maxLen, paragraphs, idx, chunk, chunkPara>>
    /\ UNCHANGED askVars

\* src/index.js:47-49
EnterLoop ==
    /\ pc = "start"
    /\ ~isFalsy(text)
    /\ ~fitsWhole(text, maxLen)
    /\ parts' = <<>>
    /\ paragraphs' = split(text)
    /\ chunk' = <<>>
    /\ idx' = 1
    /\ pc' = "loop"
    /\ UNCHANGED <<text, maxLen, origin, chunkPara>>
    /\ UNCHANGED askVars

\* src/index.js:51-69, one iteration
Iterate ==
    /\ pc = "loop"
    /\ idx <= Len(paragraphs)
    /\ LET p == paragraphs[idx]
           st == forBody([parts |-> parts, chunk |-> chunk], p, maxLen)
           pushed == Len(st.parts) - Len(parts)
       IN /\ parts' = st.parts
          /\ chunk' = st.chunk
          /\ origin' = origin \o
                 [k \in 1..pushed |->
                     IF isFalsy(chunk)
                     THEN [para |-> idx, off |-> (k - 1) * maxLen]
                     ELSE [para |-> chunkPara, off |-> 0]]
          /\ chunkPara' = IF isFalsy(chunk) \/ pushed > 0 THEN idx ELSE chunkPara
    /\ idx' = idx + 1
    /\ UNCHANGED <<text, maxLen, pc, paragraphs>>
    /\ UNCHANGED askVars

\* src/index.js:70-71
Return ==
    /\ pc = "loop"
    /\ idx > Len(paragraphs)
    /\ parts' = finalFlush([parts |-> parts, chunk |-> chunk])
    /\ origin' = IF Len(parts') > Len(parts)
                 THEN Append(origin, [para |-> chunkPara, off |-> 0])
                 ELSE origin
    /\ pc' = "done"
    /\ UNCHANGED <<text, maxLen, paragraphs, idx, chunk, chunkPara>>
    /\ UNCHANGED askVars

Next == ReturnEmpty \/ ReturnWhole \/ EnterLoop \/ Iterate \/ Return

Spec == Init /\ [][Next]_vars

(***************************************************************************)
(* The /ask handler, src/index.js:131-180.                                 *)
(*                                                                         *)
(* hpc[i] is the await the handler of interaction i stands at:             *)
(*   "new"        interactionCreate not emitted yet                        *)
(*   "deferReply" line 136      "askGemini"  line 141                      *)
(*   "tail"       lines 144 and 149: `return interaction.editReply(...)`,  *)
(*                whose promise becomes the handler's own                  *)
(*   "editFirst"  line 154      "followUp"   line 156                      *)
(*   "fallback"   lines 166 and 168, in the catch block                    *)
(*   "lastResort" lines 173 and 175, in the inner catch block              *)
(*   "done"       the handler's promise resolved                           *)
(*   "rejected"   the handler's promise rejected                           *)
(***************************************************************************)
\* the answers the AI call may return: the empty one, short ones, and ones
\* longer than MsgLimit with and without blank lines
AskAlphabet == {"a", NL}
Answers == StringsUpTo(AskAlphabet, MaxAnswerLen)

\* the fixed messages of the handler, each a one-token string: they are
\* non-empty and far shorter than the ceiling
NoResponseMsg == <<"No response from Gemini.">>
ErrAttachedMsg == <<"Error - see attached file.">>
ErrGeminiMsg == <<"Error fetching response from Gemini.">>

\* what arrives with interactionCreate
Kinds == {"ask", "otherCommand", "notCommand"}

\* a call on the interaction made at line `site`
Call(site, op, content, files) ==
    [site |-> site, op |-> op, content |-> content, files |-> files,
     state |-> "pending"]

\* the log with its last call settled ("ok" or "failed")
settled(log, outcome) == [log EXCEPT ![Len(log)].state = outcome]

\* the call awaited now
pendingCall(i) == calls[i][Len(calls[i])]

\* The chat library's and the platform's rule for a call made when the
\* interaction's flags are d (deferred) and r (replied): reply and deferReply
\* reject on an interaction already deferred or replied, editReply and
\* followUp on one that is neither; a message must be non-empty and no longer
\* than the ceiling.
accepts(c, d, r) ==
    /\ c.op \in {"reply", "deferReply"} => ~d /\ ~r
    /\ c.op \in {"editReply", "followUp"} => d \/ r
    /\ c.op # "deferReply" => c.content # <<>> /\ Len(c.content) <= MsgLimit

\* `chunks.shift() || ''`
shiftOrEmpty(cs) == IF cs = <<>> THEN <<>> ELSE Head(cs)
afterShift(cs) == IF cs = <<>> THEN <<>> ELSE Tail(cs)

\* the call of the catch block, src/index.js:165-169
fallbackCall(r) ==
    IF ~r THEN Call(166, "reply", ErrAttachedMsg, TRUE)
          ELSE Call(168, "editReply", ErrAttachedMsg, TRUE)

\* the call of the inner catch block, src/index.js:172-176
lastResortCall(r) ==
    IF ~r THEN Call(173, "reply", ErrGeminiMsg, FALSE)
          ELSE Call(175, "editReply", ErrGeminiMsg, FALSE)

AskInit ==
    /\ text = <<>>
    /\ maxLen = 1
    /\ pc = "unused"
    /\ paragraphs = <<>>
    /\ idx = 1
    /\ chunk = <<>>
    /\ parts = <<>>
    /\ origin = <<>>
    /\ chunkPara = 0
    /\ AskIdle

\* src/index.js:132-134: not a chat input command, or not /ask
Ignore(i) ==
    /\ hpc[i] = "new"
    /\ \E kind \in Kinds \ {"ask"} : hpc' = [hpc EXCEPT ![i] = "done"]
    /\ UNCHANGED <<deferred, replied, answer, chunks, calls, aiCalls, aiThrew>>
    /\ UNCHANGED splitVars

\* src/index.js:135-136: /ask arrives, deferReply is called
Receive(i) ==
    /\ hpc[i] = "new"
    /\ calls' = [calls EXCEPT ![i] = Append(@, Call(136, "deferReply", <<>>, FALSE))]
    /\ hpc' = [hpc EXCEPT ![i] = "deferReply"]
    /\ UNCHANGED <<deferred, replied, answer, chunks, aiCalls, aiThrew>>
    /\ UNCHANGED splitVars

\* deferReply resolves: the interaction is deferred (replied stays false),
\* and askGemini is called, src/index.js:141
Deferred(i) ==
    /\ hpc[i] = "deferReply"
    /\ accepts(pendingCall(i), deferred[i], replied[i])
    /\ deferred' = [deferred EXCEPT ![i] = TRUE]
    /\ calls' = [calls EXCEPT ![i] = settled(@, "ok")]
    /\ aiCalls' = [aiCalls EXCEPT ![i] = @ + 1]
    /\ hpc' = [hpc EXCEPT ![i] = "askGemini"]
    /\ UNCHANGED <<replied, answer, chunks, aiThrew>>
    /\ UNCHANGED splitVars

\* deferReply rejects (the interaction token has expired): the await of line
\* 136 is outside the try block
DeferFailed(i) ==
    /\ hpc[i] = "deferReply"
    /\ calls' = [calls EXCEPT ![i] = settled(@, "failed")]
    /\ hpc' = [hpc EXCEPT ![i] = "rejected"]
    /\ UNCHANGED <<deferred, replied, answer, chunks, aiCalls, aiThrew>>
    /\ UNCHANGED splitVars

\* src/index.js:143-145: askGemini returns the empty string
AnswerEmpty(i) ==
    /\ hpc[i] = "askGemini"
    /\ \E ans \in Answers :
        /\ isFalsy(ans)
        /\ answer' = [answer EXCEPT ![i] = ans]
        /\ calls' = [calls EXCEPT ![i] =
                        Append(@, Call(144, "editReply", NoResponseMsg, FALSE))]
    /\ hpc' = [hpc EXCEPT ![i] = "tail"]
    /\ UNCHANGED <<deferred, replied, chunks, aiCalls, aiThrew>>
    /\ UNCHANGED splitVars

\* src/index.js:148-150: askGemini returns an answer within the ceiling
AnswerShort(i) ==
    /\ hpc[i] = "askGemini"
    /\ \E ans \in Answers :
        /\ ~isFalsy(ans)
        /\ Len(ans) <= MsgLimit
        /\ answer' = [answer EXCEPT ![i] = ans]
        /\ calls' = [calls EXCEPT ![i] = Append(@, Call(149, "editReply", ans, FALSE))]
    /\ hpc' = [hpc EXCEPT ![i] = "tail"]
    /\ UNCHANGED <<deferred, replied, chunks, aiCalls, aiThrew>>
    /\ UNCHANGED splitVars

\* src/index.js:153-154: askGemini returns an answer longer than the ceiling
AnswerLong(i) ==
    /\ hpc[i] = "askGemini"
    /\ \E ans \in Answers :
        /\ ~isFalsy(ans)
        /\ Len(ans) > MsgLimit
        /\ answer' = [answer EXCEPT ![i] = ans]
        /\ LET cs == splitMessage(ans, MsgLimit) IN
            /\ chunks' = [chunks EXCEPT ![i] = afterShift(cs)]
            /\ calls' = [calls EXCEPT ![i] =
                            Append(@, Call(154, "editReply", shiftOrEmpty(cs), FALSE))]
    /\ hpc' = [hpc EXCEPT ![i] = "editFirst"]
    /\ UNCHANGED <<deferred, replied, aiCalls, aiThrew>>
    /\ UNCHANGED splitVars

\* askGemini throws: the catch block makes its call, src/index.js:158-169
AskThrows(i) ==
    /\ hpc[i] = "askGemini"
    /\ aiThrew' = [aiThrew EXCEPT ![i] = TRUE]
    /\ calls' = [calls EXCEPT ![i] = Append(@, fallbackCall(replied[i]))]
    /\ hpc' = [hpc EXCEPT ![i] = "fallback"]
    /\ UNCHANGED <<deferred, replied, answer, chunks, aiCalls>>
    /\ UNCHANGED splitVars

\* the editReply returned at line 144 or 149 settles, and the handler with it
TailSettled(i) ==
    /\ hpc[i] = "tail"
    /\ LET ok == accepts(pendingCall(i), deferred[i], replied[i]) IN
        /\ calls' = [calls EXCEPT ![i] = settled(@, IF ok THEN "ok" ELSE "failed")]
        /\ replied' = [replied EXCEPT ![i] = @ \/ ok]
        /\ hpc' = [hpc EXCEPT ![i] = IF ok THEN "done" ELSE "rejected"]
    /\ UNCHANGED <<deferred, answer, chunks, aiCalls, aiThrew>>
    /\ UNCHANGED splitVars

\* the editReply of line 154 or the followUp of line 156 resolves: the for
\* loop sends the next chunk, or the handler is through
ChunkSent(i) ==
    /\ hpc[i] \in {"editFirst", "followUp"}
    /\ accepts(pendingCall(i), deferred[i], replied[i])
    /\ replied' = [replied EXCEPT ![i] = @ \/ pendingCall(i).op = "editReply"]
    /\ IF chunks[i] # <<>>
       THEN /\ calls' = [calls EXCEPT ![i] =
                   Append(settled(@, "ok"),
                          Call(156, "followUp", Head(chunks[i]), FALSE))]
            /\ chunks' = [chunks EXCEPT ![i] = Tail(@)]
            /\ hpc' = [hpc EXCEPT ![i] = "followUp"]
       ELSE /\ calls' = [calls EXCEPT ![i] = settled(@, "ok")]
            /\ chunks' = chunks
            /\ hpc' = [hpc EXCEPT ![i] = "done"]
    /\ UNCHANGED <<deferred, answer, aiCalls, aiThrew>>
    /\ UNCHANGED splitVars

\* the editReply of line 154 or the followUp of line 156 rejects: the catch
\* block makes its call
ChunkRejected(i) ==
    /\ hpc[i] \in {"editFirst", "followUp"}
    /\ ~accepts(pendingCall(i), deferred[i], replied[i])
    /\ calls' = [calls EXCEPT ![i] =
                    Append(settled(@, "failed"), fallbackCall(replied[i]))]
    /\ hpc' = [hpc EXCEPT ![i] = "fallback"]
    /\ UNCHANGED <<deferred, replied, answer, chunks, aiCalls, aiThrew>>
    /\ UNCHANGED splitVars

\* the call of the catch block resolves
FallbackSent(i) ==
    /\ hpc[i] = "fallback"
    /\ accepts(pendingCall(i), deferred[i], replied[i])
    /\ calls' = [calls EXCEPT ![i] = settled(@, "ok")]
    /\ replied' = [replied EXCEPT ![i] = TRUE]
    /\ hpc' = [hpc EXCEPT ![i] = "done"]
    /\ UNCHANGED <<deferred, answer, chunks, aiCalls, aiThrew>>
    /\ UNCHANGED splitVars

\* the call of the catch block rejects, by the rule above or because the
\* upload of the attached file fails: the inner catch block makes its call
FallbackRejected(i) ==
    /\ hpc[i] = "fallback"
    /\ \E uploadOk \in BOOLEAN :
          ~(uploadOk /\ accepts(pendingCall(i), deferred[i], replied[i]))
    /\ calls' = [calls EXCEPT ![i] =
                    Append(settled(@, "failed"), lastResortCall(replied[i]))]
    /\ hpc' = [hpc EXCEPT ![i] = "lastResort"]
    /\ UNCHANGED <<deferred, replied, answer, chunks, aiCalls, aiThrew>>
    /\ UNCHANGED splitVars

\* the call of the inner catch block settles, and the handler with it
LastResortSettled(i) ==
    /\ hpc[i] = "lastResort"
    /\ LET ok == accepts(pendingCall(i), deferred[i], replied[i]) IN
        /\ calls' = [calls EXCEPT ![i] = settled(@, IF ok THEN "ok" ELSE "failed")]
        /\ replied' = [replied EXCEPT ![i] = @ \/ ok]
        /\ hpc' = [hpc EXCEPT ![i] = IF ok THEN "done" ELSE "rejected"]
    /\ UNCHANGED <<deferred, answer, chunks, aiCalls, aiThrew>>
    /\ UNCHANGED splitVars

AskNext ==
    \E i \in Interactions :
        \/ Ignore(i)
        \/ Receive(i)
        \/ Deferred(i)
        \/ DeferFailed(i)
        \/ AnswerEmpty(i)
        \/ AnswerShort(i)
        \/ AnswerLong(i)
        \/ AskThrows(i)
        \/ TailSettled(i)
        \/ ChunkSent(i)
        \/ ChunkRejected(i)
        \/ FallbackSent(i)
        \/ FallbackRejected(i)
        \/ LastResortSettled(i)

AskSpec == AskInit /\ [][AskNext]_vars


(***************************************************************************)
(* Properties of splitMessage, stated on the finished call (pc = "done").  *)
(***************************************************************************)
Returned == pc = "done"

\* text holds the separator '\n\n' somewhere
HasSep(s) == \E i \in 1..(Len(s) - 1) : s[i] = NL /\ s[i + 1] = NL

\* ceil(a / b)
CeilDiv(a, b) == (a + b - 1) \div b

\* the chunks ps from the k-th on, joined: the separator goes back in front of
\* a chunk that starts a paragraph (offset 0) and nothing in front of a
\* hard-sliced piece that continues one (offset > 0)
RECURSIVE rejoin(_, _, _)
rejoin(ps, og, k) ==
    IF k > Len(ps) THEN <<>>
    ELSE (IF k > 1 /\ og[k].off = 0 THEN Sep ELSE <<>>)
             \o ps[k] \o rejoin(ps, og, k + 1)

\* the strings of ps one after the other, nothing between them
RECURSIVE concat(_)
concat(ps) == IF ps = <<>> THEN <<>> ELSE Head(ps) \o concat(Tail(ps))

\* the state machine returns what the operator splitMessage computes
StepwiseAgrees == Returned => parts = splitMessage(text, maxLen)

\* C1: every returned chunk is at most maxLen characters long.
C1_ChunksWithinMaxLen ==
    Returned => \A k \in 1..Len(parts) : Len(parts[k]) <= maxLen

\* C2: the returned chunks, joined in order with the separator put back at
\* every paragraph boundary and nothing at a hard-slice boundary, are the text.
C2_RejoinIsText ==
    Returned => rejoin(parts, origin, 1) = text

\* C4: the returned sequence is non-empty if and only if the text is.
C4_NonEmptyIffText ==
    Returned => (parts # <<>> <=> text # <<>>)

\* C5: a text of at most maxLen characters comes back as the one chunk
\* <<text>>, whatever separators it holds, and the empty text as no chunk.
C5_ShortTextIsOneChunk ==
    (Returned /\ Len(text) <= maxLen)
        => parts = (IF text = <<>> THEN <<>> ELSE <<text>>)

C5_Witness ==
    /\ Returned
    /\ Len(text) <= maxLen
    /\ HasSep(text)
    /\ text[1] = NL
    /\ parts = <<text>>

\* C6: a text longer than maxLen with no separator comes back as
\* ceil(L / maxLen) chunks, chunk k being characters (k-1)*maxLen+1 ..
\* min(k*maxLen, L) of it, so only the last may be shorter than maxLen, and
\* their plain concatenation is the text.
C6_HardSliceOfOneParagraph ==
    (Returned /\ Len(text) > maxLen /\ ~HasSep(text))
        => /\ Len(parts) = CeilDiv(Len(text), maxLen)
           /\ \A k \in 1..Len(parts) :
                  parts[k] = SubSeq(text, (k - 1) * maxLen + 1,
                                    Min(k * maxLen, Len(text)))
           /\ \A k \in 1..(Len(parts) - 1) : Len(parts[k]) = maxLen
           /\ Len(parts[Len(parts)])
                  = Len(text) - (CeilDiv(Len(text), maxLen) - 1) * maxLen
           /\ concat(parts) = text

C6_Witness ==
    /\ Returned
    /\ Len(text) > maxLen
    /\ ~HasSep(text)
    /\ \E i \in 1..Len(text) : text[i] = NL
    /\ Len(parts) = 3
    /\ Len(parts[3]) < maxLen

\* C7: no returned chunk is the empty string.
C7_NoEmptyChunk ==
    Returned => \A k \in 1..Len(parts) : parts[k] # <<>>

\* an empty paragraph, a hard-slice, and a buffer flushed after it
C7_Witness ==
    /\ Returned
    /\ \E j \in 1..Len(paragraphs) : paragraphs[j] = <<>>
    /\ \E k \in 1..(Len(parts) - 1) :
           origin[k].off > 0 /\ origin[k + 1].off = 0

\* C8: in a text longer than maxLen, a paragraph of exactly maxLen characters
\* is the whole content of exactly one returned chunk.
C8_ExactParagraphKeptWhole ==
    (Returned /\ Len(text) > maxLen)
        => \A j \in 1..Len(paragraphs) :
               Len(paragraphs[j]) = maxLen
                   => /\ \E k \in 1..Len(parts) :
                             /\ origin[k] = [para |-> j, off |-> 0]
                             /\ parts[k] = paragraphs[j]
                      /\ Cardinality({k \in 1..Len(parts) : origin[k].para = j}) = 1

\* the paragraph of exactly maxLen characters follows a non-empty buffer
C8_Witness ==
    /\ Returned
    /\ Len(text) > maxLen
    /\ \E j \in 2..Len(paragraphs) :
           /\ Len(paragraphs[j]) = maxLen
           /\ paragraphs[j - 1] # <<>>
           /\ \E k \in 2..Len(parts) : origin[k].para = j /\ parts[k] = paragraphs[j]

\* every paragraph of the text fits in maxLen
AllParagraphsFit ==
    \A j \in 1..Len(paragraphs) : Len(paragraphs[j]) <= maxLen

\* one iteration on paragraph p with every paragraph fitting: p starts the
\* chunk when the buffer is empty; else the buffer is flushed and p starts the
\* next chunk exactly when buffer + separator + p exceeds maxLen, and is
\* appended behind the separator otherwise
C10_Step ==
    [][(pc = "loop" /\ idx' = idx + 1 /\ AllParagraphsFit)
          => LET p == paragraphs[idx] IN
             IF chunk = <<>>
             THEN parts' = parts /\ chunk' = p
             ELSE IF Len(chunk) + 2 + Len(p) > maxLen
                  THEN parts' = Append(parts, chunk) /\ chunk' = p
                  ELSE parts' = parts /\ chunk' = chunk \o Sep \o p]_vars

\* of two adjacent returned chunks, the first plus the separator plus the
\* first paragraph of the second exceeds maxLen
C10_Adjacent ==
    (Returned /\ Len(text) > maxLen /\ AllParagraphsFit)
        => \A k \in 1..(Len(parts) - 1) :
               Len(parts[k]) + 2 + Len(paragraphs[origin[k + 1].para]) > maxLen

\* C10: paragraphs that each fit are accumulated greedily: the buffer is
\* flushed before p exactly when buffer + separator + p exceeds maxLen, so two
\* adjacent chunks could never have shared one.
C10_Greedy == C10_Step /\ []C10_Adjacent

\* a chunk that joins two paragraphs, followed by another chunk
C10_Witness ==
    /\ Returned
    /\ Len(text) > maxLen
    /\ AllParagraphsFit
    /\ Len(parts) >= 2
    /\ HasSep(parts[1])
    /\ origin[2].para = 3

(***************************************************************************)
(* Properties of the /ask handler.                                         *)
(***************************************************************************)
Settled(i) == hpc[i] \in {"done", "rejected"}

\* the calls that carry chunks (lines 154 and 156), as <<op, content>> pairs
RECURSIVE chunkCalls(_)
chunkCalls(log) ==
    IF log = <<>> THEN <<>>
    ELSE LET c == Head(log) IN
         (IF c.site \in {154, 156} THEN <<c>> ELSE <<>>) \o chunkCalls(Tail(log))

\* what the handler is to send for an answer: an editReply with the first
\* chunk, then one followUp with each later chunk
expectedSends(ans) ==
    LET cs == splitMessage(ans, MsgLimit) IN
    [k \in 1..Len(cs) |->
        [op |-> IF k = 1 THEN "editReply" ELSE "followUp", content |-> cs[k]]]

IsPrefix(a, b) == Len(a) <= Len(b) /\ \A k \in 1..Len(a) : a[k] = b[k]

\* C3: for an answer longer than the ceiling the handler sends the chunks of
\* splitMessage in order, the first by editReply and each later one by one
\* followUp issued once the send before it has resolved, none twice and none
\* skipped, after exactly one AI call, whatever the other handlers do.
C3_ChunksSentInOrder ==
    \A i \in Interactions :
        Len(answer[i]) > MsgLimit
            => LET sent == chunkCalls(calls[i])
                   want == expectedSends(answer[i])
               IN /\ aiCalls[i] = 1
                  /\ IsPrefix([k \in 1..Len(sent) |->
                                  [op |-> sent[k].op, content |-> sent[k].content]],
                              want)
                  /\ \A k \in 1..(Len(sent) - 1) : sent[k].state = "ok"
                  /\ Settled(i)
                         => /\ Len(sent) = Len(want)
                            /\ \A k \in 1..Len(sent) : sent[k].state = "ok"

\* the chunks of an answer can all be sent: there is one at least, and each
\* is a message the platform takes
ChunksSendable(ans) ==
    LET cs == splitMessage(ans, MsgLimit) IN
    /\ cs # <<>>
    /\ \A k \in 1..Len(cs) : cs[k] # <<>> /\ Len(cs[k]) <= MsgLimit

\* what C3 says does hold of the answers whose chunks can all be sent
SendableChunksSentInOrder ==
    \A i \in Interactions :
        (Len(answer[i]) > MsgLimit /\ ChunksSendable(answer[i]))
            => LET sent == chunkCalls(calls[i])
                   want == expectedSends(answer[i])
               IN /\ aiCalls[i] = 1
                  /\ IsPrefix([k \in 1..Len(sent) |->
                                  [op |-> sent[k].op, content |-> sent[k].content]],
                              want)
                  /\ \A k \in 1..(Len(sent) - 1) : sent[k].state = "ok"
                  /\ hpc[i] # "rejected"
                  /\ hpc[i] = "done"
                         => /\ Len(sent) = Len(want)
                            /\ \A k \in 1..Len(sent) : sent[k].state = "ok"

\* C9: once the AI call has thrown on a deferred interaction, the handler
\* never calls reply() on it, its promise does not reject, and when it is
\* through, an error message (line 166, 168, 173 or 175) has been delivered.
C9_ErrorReported ==
    \A i \in Interactions :
        aiThrew[i]
            => /\ \A k \in 1..Len(calls[i]) :
                      calls[i][k].op # "reply"
               /\ hpc[i] # "rejected"
               /\ hpc[i] = "done"
                      => \E k \in 1..Len(calls[i]) :
                             /\ calls[i][k].site \in {166, 168, 173, 175}
                             /\ calls[i][k].state = "ok"

=============================================================================
